---- MODULE Spec2Model ----
(***************************************************************************)
(* A model of Librarian (src/code/Librarian.py): the cross-catalog         *)
(* magnitude resolution of astroARIADNE.                                   *)
(*                                                                         *)
(* Numbers: magnitudes and errors are integers (a fixed-point reading of   *)
(* the catalog floats).  Byte strings (identifiers) are sequences of       *)
(* tokens, so that split and format are real operations.  A table cell is  *)
(* a numpy masked value: [masked, val].  Of gaia_params the warnings and   *)
(* the central values it stores are modelled; the uncertainties it stores  *)
(* (a square root, a maximum of two differences) are read by nothing here  *)
(* and are left out.  The parallax is in thousandths of a mas.             *)
(* The caller makes the public calls in any order: Librarian(...), and on  *)
(* the instance it built last gaia_params(), gaia_query() and              *)
(* get_magnitudes(); every Librarian of one process gets the same verbose. *)
(* numpy is the one the code was written for (scipy still exporting        *)
(* sp.array, sp.zeros, sp.where): the truth value of an empty comparison   *)
(* is False, and storing an empty column in one slot raises ValueError.    *)
(***************************************************************************)
EXTENDS Integers, Sequences, FiniteSets, TLC

\* ------------------------------------------------------------------ bounds
\* At most this many anomalies in the external data of one behaviour
\* (a parallax that is not positive, a masked stellar parameter, a missing
\* cross-match, a missing table, a missing or foreign row, a masked, zero
\* or negative cell).
MaxFaults == 1
\* At most this many get_magnitudes runs in one process that reach the
\* tables of the response.
MaxRuns == 2
\* The calls of Librarian, gaia_params and gaia_query of one process emit at
\* most this many warnings together.
MaxEmitted == 1
\* The anomalous cells of a row are among the columns of the first this many
\* triples of its catalog.
MaxTriple == 2
\* _add_mags on its own is called for the first this many bands.
MaxBands == 3

\* ------------------------------------------------- warning types (Error.py)
NoParallax == 0
MaskedParameter == 1
MaskedMagnitude == 2
MaskedError == 3
ZeroError == 4
NoCrossMatch == 5
DuplicateBand == 6

\* ----------------------------------------------------------- configuration
filter_names ==
    << "2MASS_H", "2MASS_J", "2MASS_Ks",
       "GROUND_JOHNSON_U", "GROUND_JOHNSON_V", "GROUND_JOHNSON_B",
       "GaiaDR2v2_G", "GaiaDR2v2_RP", "GaiaDR2v2_BP",
       "PS1_g", "PS1_i", "PS1_r", "PS1_w", "PS1_y", "PS1_z",
       "SDSS_g", "SDSS_i", "SDSS_r", "SDSS_u", "SDSS_z",
       "WISE_RSR_W1", "WISE_RSR_W2", "GALEX_FUV", "GALEX_NUV" >>

NBands == Len(filter_names)

\* zip(mags, errs, filters): the sequence of triples the three lists give.
Zip(ms, es, fs) ==
    [i \in 1..Len(ms) |-> [m |-> ms[i], e |-> es[i], f |-> fs[i]]]

apass_triples ==
    Zip(<<"Vmag", "Bmag", "g_mag", "r_mag", "i_mag">>,
        <<"e_Vmag", "e_Bmag", "e_g_mag", "e_r_mag", "e_i_mag">>,
        <<"GROUND_JOHNSON_V", "GROUND_JOHNSON_B", "SDSS_g", "SDSS_r", "SDSS_i">>)
ascc_triples ==
    Zip(<<"Vmag", "Bmag", "Jmag", "Hmag", "Kmag">>,
        <<"e_Vmag", "e_Bmag", "e_Jmag", "e_Hmag", "e_Kmag">>,
        <<"GROUND_JOHNSON_V", "GROUND_JOHNSON_B", "2MASS_J", "2MASS_H", "2MASS_Ks">>)
wise_triples ==
    Zip(<<"W1mag", "W2mag">>, <<"e_W1mag", "e_W2mag">>,
        <<"WISE_RSR_W1", "WISE_RSR_W2">>)
ps1_triples ==
    Zip(<<"gmag", "rmag", "imag", "zmag", "ymag">>,
        <<"e_gmag", "e_rmag", "e_imag", "e_zmag", "e_ymag">>,
        <<"PS1_g", "PS1_r", "PS1_i", "PS1_z", "PS1_y">>)
twomass_triples ==
    Zip(<<"Jmag", "Hmag", "Kmag">>, <<"e_Jmag", "e_Hmag", "e_Kmag">>,
        <<"2MASS_J", "2MASS_H", "2MASS_Ks">>)
gaia_triples ==
    Zip(<<"Gmag", "BPmag", "RPmag">>, <<"e_Gmag", "e_BPmag", "e_RPmag">>,
        <<"GaiaDR2v2_G", "GaiaDR2v2_BP", "GaiaDR2v2_RP">>)
sdss_triples ==
    Zip(<<"umag", "gmag", "rmag", "imag", "zmag">>,
        <<"e_umag", "e_gmag", "e_rmag", "e_imag", "e_zmag">>,
        <<"SDSS_u", "SDSS_g", "SDSS_r", "SDSS_i", "SDSS_z">>)
galex_triples ==
    Zip(<<"FUV", "NUV">>, <<"e_FUV", "e_NUV">>, <<"GALEX_FUV", "GALEX_NUV">>)

\* The keys of the class attribute `catalogs`, in declaration order.
CatalogOrder ==
    <<"ASCC", "APASS", "Wise", "Pan-STARRS", "Gaia", "2MASS", "SDSS", "GALEX">>
Catalogs == {CatalogOrder[i] : i \in 1..Len(CatalogOrder)}

\* catalogs[c][1]: the triples the zip object of catalog c was built from.
Triples(c) ==
    CASE c = "ASCC" -> ascc_triples
      [] c = "APASS" -> apass_triples
      [] c = "Wise" -> wise_triples
      [] c = "Pan-STARRS" -> ps1_triples
      [] c = "Gaia" -> gaia_triples
      [] c = "2MASS" -> twomass_triples
      [] c = "SDSS" -> sdss_triples
      [] c = "GALEX" -> galex_triples

\* The keys of IDS in gaia_query.
IdsKeys == {"ASCC", "APASS", "2MASS", "Pan-STARRS", "SDSS", "Wise", "Gaia"}
\* The catalogs gaia_query cross-matches, in the order of its loop.
QueryOrder == <<"ASCC", "Pan-STARRS", "SDSS", "Wise", "2MASS", "APASS">>
\* The catalogs get_magnitudes hands to a _get_* selector.
Dispatched == {"APASS", "Wise", "ASCC", "SDSS", "Pan-STARRS", "Gaia"}


\* ------------------------------------------------------- the external data
\* The 'skipped' sentinel gaia_query stores for a catalog without a match.
Skipped == <<"skipped">>
\* The target's identifiers, as the Gaia archive's best-neighbour tables give
\* them: a Tycho-2 identifier for ASCC, the source id for Gaia.
TargetTyc == <<"1", "-", "2", "-", "1">>
g_id == <<"4", "2">>
TargetId(c) ==
    CASE c = "ASCC" -> TargetTyc
      [] c = "Gaia" -> g_id
      [] OTHER -> <<"7">>

\* The identifier columns each selector compares.
IdCols(c) ==
    CASE c = "ASCC" -> {"TYC1", "TYC2", "TYC3"}
      [] c = "APASS" -> {"recno"}
      [] c = "Wise" -> {"AllWISE"}
      [] c = "2MASS" -> {"_2MASS"}
      [] c = "SDSS" -> {"SDSS12"}
      [] c = "Pan-STARRS" -> {"objID"}
      [] c = "Gaia" -> {"DR2Name"}
      [] OTHER -> {}

\* The values an identifier column of catalog c takes in the modelled tables.
IdValues(c) ==
    CASE c = "ASCC" -> {<<"1">>, <<"2">>}
      [] c = "Gaia" -> {<<"Gaia DR2 ", "4", "2">>, <<"Gaia DR2 ", "4", "3">>, g_id}
      [] OTHER -> {<<"7">>, <<"8">>}

\* The identifier columns of the row that is the target's in catalog c.
TargetKey(c) ==
    CASE c = "ASCC" -> [col \in IdCols(c) |->
                          IF col = "TYC2" THEN <<"2">> ELSE <<"1">>]
      [] c = "Gaia" -> [col \in IdCols(c) |-> <<"Gaia DR2 ", "4", "2">>]
      [] OTHER -> [col \in IdCols(c) |-> <<"7">>]

CatIdx(c) == CHOOSE i \in 1..Len(CatalogOrder) : CatalogOrder[i] = c

MagCols(c) == {Triples(c)[i].m : i \in 1..Len(Triples(c))}
ErrCols(c) == {Triples(c)[i].e : i \in 1..Len(Triples(c))}

Cell(v) == [masked |-> FALSE, val |-> v]
MaskedCell == [masked |-> TRUE, val |-> 0]

\* The row of gaiadr2.gaia_source that gaia_params reads: the parallax and
\* the three stellar parameters, each of which the archive may leave masked.
ParallaxCorrection == 82
GaiaSources ==
    [parallax : {0, 5000},
     teff_val : {Cell(5700), MaskedCell},
     radius_val : {Cell(1), MaskedCell},
     lum_val : {Cell(2), MaskedCell}]
SourceCost(g) ==
    (IF g.parallax <= 0 THEN 1 ELSE 0)
    + Cardinality({f \in {"teff_val", "radius_val", "lum_val"} : g[f].masked})

\* The unremarkable content of the target's row: every magnitude and every
\* error present, errors positive, all values distinct over the catalogs.
NomCols(c) ==
    [col \in MagCols(c) \cup ErrCols(c) |->
        LET i == CHOOSE j \in 1..Len(Triples(c)) :
                    Triples(c)[j].m = col \/ Triples(c)[j].e = col
        IN IF col \in MagCols(c) THEN Cell(100 * CatIdx(c) + i)
                                 ELSE Cell(10 * CatIdx(c) + i)]

\* What else a cell may hold: a masked magnitude; a masked, zero or negative
\* error.
FaultValues(c, col) ==
    IF col \in MagCols(c) THEN {MaskedCell}
                          ELSE {MaskedCell, Cell(0), Cell(-1)}

ColsCost(c, cols) ==
    Cardinality({col \in DOMAIN cols : cols[col] # NomCols(c)[col]})

\* The columns that may hold an anomalous cell.
FaultCols(c) ==
    {col \in MagCols(c) \cup ErrCols(c) :
        \E i \in 1..Len(Triples(c)) :
            i <= MaxTriple /\ col \in {Triples(c)[i].m, Triples(c)[i].e}}

\* The row contents with at most k anomalous cells.
RECURSIVE FaultedCols(_, _)
FaultedCols(c, k) ==
    IF k <= 0 THEN {NomCols(c)}
    ELSE LET prev == FaultedCols(c, k - 1)
         IN prev \cup
            UNION {{[f EXCEPT ![col] = v] : v \in FaultValues(c, col)} :
                   <<f, col>> \in {x \in prev \X FaultCols(c) :
                                      x[1][x[2]] = NomCols(c)[x[2]]}}

RowCost(c, row) ==
    (IF row.id = TargetKey(c) THEN 0 ELSE 1) + ColsCost(c, row.cols)

\* A catalog's entry in the query service's response: absent, or a table of
\* rows with distinct identifiers (here: at most one row).
AbsentTable == [seen |-> TRUE, present |-> FALSE, rows |-> <<>>]
EmptyTable == [seen |-> TRUE, present |-> TRUE, rows |-> <<>>]
\* An entry the program has not looked up yet.
Unseen == [seen |-> FALSE, present |-> FALSE, rows |-> <<>>]
TableCost(c, t) ==
    IF ~t.present \/ t.rows = <<>> THEN 1 ELSE RowCost(c, t.rows[1])

\* The entries with at most b anomalies.  The cells of a catalog that no
\* selector reads (2MASS, GALEX) are never looked at: their rows stay as
\* they come.
TableChoices(c, b) ==
    {t \in {AbsentTable, EmptyTable} : b >= 1}
    \cup {[seen |-> TRUE, present |-> TRUE, rows |-> <<[id |-> x[1], cols |-> x[2]]>>] :
            x \in {y \in [IdCols(c) -> IdValues(c)]
                            \X (IF c \in Dispatched THEN FaultedCols(c, b)
                                                    ELSE {NomCols(c)}) :
                     (IF y[1] = TargetKey(c) THEN 0 ELSE 1)
                       + ColsCost(c, y[2]) <= b}}

\* ------------------------------------------------------ the program's state
VARIABLES
    args,          \* the argument verbose that every Librarian of the
                   \* process is built with
    xmatch,        \* Gaia archive: catalog -> whether a best neighbour exists
    gsource,       \* Gaia archive: the target's row of gaiadr2.gaia_source
    vizier,        \* Vizier: catalog -> its entry in the response, once seen
    faults,        \* anomalies of the external data seen so far
    zips,          \* Librarian.catalogs[c][1]: triples the zip object gave out
    verbose,       \* self.verbose
    ids,           \* self.ids
    params,        \* self.plx, self.temp, self.rad, self.lum
    used_filters,  \* self.used_filters
    mags,          \* self.mags
    mag_errs,      \* self.mag_errs
    warnings,      \* what CatalogWarning.warn() has emitted, in order
    pc,            \* the caller: "none" before the first Librarian, "ready"
                   \* with an instance no get_magnitudes was called on,
                   \* "loop" in the loop of get_magnitudes, and after
                   \* get_magnitudes "done", "aborted" (an exception in the
                   \* loop) or "failed" (no self.ids: AttributeError)
    ci,            \* get_magnitudes: position in catalogs.keys()
    runs,          \* get_magnitudes calls so far that got into the loop
    emitted,       \* warnings of Librarian, gaia_params, gaia_query so far
    fresh,         \* the current run is the first of its instance
    imark,         \* history: Len(warnings) when the instance was built
    rmark,         \* history: Len(warnings) when the current run began
    writer,        \* history: band index -> the catalog whose triple set it
    selected,      \* history: catalog -> the rows its selector handed on
    invoked,       \* history: the catalogs whose selector ran in this run
    log,           \* history: what became of each triple read in this run
    hist           \* history: the outcome of each ended run of the loop

vars == <<args, xmatch, gsource, vizier, faults, zips, verbose, ids, params,
          used_filters, mags, mag_errs, warnings, pc, ci, runs, emitted, fresh,
          imark, rmark, writer, selected, invoked, log, hist>>

\* --------------------------------------------------------- pure operations
\* sp.where(f == self.filter_names)[0], as a position of the sequence.
FiltIdx(f) == CHOOSE i \in 1..NBands : filter_names[i] = f

\* bytes.split(sep)
RECURSIVE Split(_, _)
Split(s, sep) ==
    IF \A i \in 1..Len(s) : s[i] # sep THEN <<s>>
    ELSE LET k == CHOOSE i \in 1..Len(s) :
                     s[i] = sep /\ \A j \in 1..(i - 1) : s[j] # sep
         IN <<SubSeq(s, 1, k - 1)>> \o Split(SubSeq(s, k + 1, Len(s)), sep)

\* 'Gaia DR2 {0}'.format(id)
FormatGaia(id) == <<"Gaia DR2 ">> \o id

\* cat[col] == v for an identifier column: one boolean per row.
ColEq(cat, col, v) == [i \in 1..Len(cat) |-> cat[i].id[col] = v]
\* mask *= other
MaskMul(a, b) == [i \in 1..Len(a) |-> a[i] /\ b[i]]
\* cat[mask]: the rows the mask keeps, in order.
RECURSIVE ApplyMask(_, _)
ApplyMask(cat, mask) ==
    IF cat = <<>> THEN <<>>
    ELSE (IF mask[1] THEN <<cat[1]>> ELSE <<>>)
         \o ApplyMask(Tail(cat), Tail(mask))
\* cat[m] for a value column: one cell per row.
Column(cat, col) == [i \in 1..Len(cat) |-> cat[i].cols[col]]
\* sp.ma.is_masked(x)
IsMasked(x) == \E i \in 1..Len(x) : x[i].masked

\* _get_ascc's mask without `mask *= cat['TYC3'] == tyc3`.
AsccMaskTwoColumns(cat, id) ==
    LET parts == Split(id, "-")
    IN MaskMul(ColEq(cat, "TYC1", parts[1]), ColEq(cat, "TYC2", parts[2]))

\* _get_ascc's mask
AsccMask(cat, id) ==
    LET parts == Split(id, "-")
    IN MaskMul(MaskMul(ColEq(cat, "TYC1", parts[1]),
                       ColEq(cat, "TYC2", parts[2])),
               ColEq(cat, "TYC3", parts[3]))

\* The mask of each _get_* selector.
SelectorMask(c, cat, id) ==
    CASE c = "ASCC" -> AsccMask(cat, id)
      [] c = "APASS" -> ColEq(cat, "recno", id)
      [] c = "Wise" -> ColEq(cat, "AllWISE", id)
      [] c = "2MASS" -> ColEq(cat, "_2MASS", id)
      [] c = "SDSS" -> ColEq(cat, "SDSS12", id)
      [] c = "Pan-STARRS" -> ColEq(cat, "objID", id)
      [] c = "Gaia" -> ColEq(cat, "DR2Name", FormatGaia(id))

\* CatalogWarning(par, type).warn(): the warning is emitted.
Warn(st, par, type) == [st EXCEPT !.warns = Append(@, <<par, type>>)]
\* CatalogWarning(par, type) alone: an object is built and dropped.
Construct(st, par, type) == st

\* _add_mags without `self.used_filters[filt_idx] = 1`.
AddMagsNoFlag(st, mag, er, filt) ==
    LET idx == FiltIdx(filt)
    IN IF st.used[idx] = 1 THEN st
       ELSE IF Len(mag) # 1 \/ Len(er) # 1 THEN [st EXCEPT !.raised = TRUE]
       ELSE [st EXCEPT !.mags[idx] = mag[1].val, !.errs[idx] = er[1].val]

\* _add_mags.  The three assignments are made in order; storing a column
\* that does not hold exactly one value raises ValueError at that
\* assignment, after used_filters was set.
AddMags(st, mag, er, filt) ==
    LET idx == FiltIdx(filt)
    IN IF st.used[idx] = 1
       THEN IF st.verbose THEN Construct(st, filt, DuplicateBand) ELSE st
       ELSE LET s1 == [st EXCEPT !.used[idx] = 1]
            IN IF Len(mag) # 1 THEN [s1 EXCEPT !.raised = TRUE]
               ELSE LET s2 == [s1 EXCEPT !.mags[idx] = mag[1].val]
                    IN IF Len(er) # 1 THEN [s2 EXCEPT !.raised = TRUE]
                       ELSE [s2 EXCEPT !.errs[idx] = er[1].val]

\* `if err == 0:` for a column of at most one row: an empty comparison is
\* false.
ErrIsZero(err) == Len(err) = 1 /\ err[1].val = 0

\* History: triple k of catalog `name` ended as `out`; a triple that changed
\* the vector makes `name` the writer of its band.
Event(old, st, name, k, out) ==
    LET idx == FiltIdx(Triples(name)[k].f)
        wrote == \/ st.used # old.used
                 \/ st.mags # old.mags
                 \/ st.errs # old.errs
    IN [st EXCEPT !.log = Append(@, [cat |-> name, k |-> k, out |-> out]),
                  !.writer[idx] = IF wrote THEN name ELSE @]

\* _retrieve_from_cat with the `return` of line 317 inside the
\* `if self.verbose:` of line 315.
RECURSIVE RetrieveFromCatReturnsIfVerbose(_, _, _)
RetrieveFromCatReturnsIfVerbose(st, cat, name) ==
    IF st.zips[name] >= Len(Triples(name)) THEN st
    ELSE LET k == st.zips[name] + 1
             t == Triples(name)[k]
             s1 == [st EXCEPT !.zips[name] = k]
             mag == Column(cat, t.m)
             err == Column(cat, t.e)
         IN IF s1.used[FiltIdx(t.f)] = 1 /\ s1.verbose
            THEN Event(s1, Construct(s1, t.f, DuplicateBand), name, k,
                       "duplicate")
            ELSE IF IsMasked(mag)
            THEN Event(s1, Warn(s1, t.m, MaskedMagnitude), name, k, "masked_mag")
            ELSE IF IsMasked(err)
            THEN Event(s1, Warn(s1, t.m, MaskedError), name, k, "masked_err")
            ELSE IF ErrIsZero(err)
            THEN Event(s1, Warn(s1, t.m, ZeroError), name, k, "zero_err")
            ELSE LET s2 == AddMags(s1, mag, err, t.f)
                 IN IF s2.raised THEN Event(s1, s2, name, k, "raised")
                    ELSE RetrieveFromCatReturnsIfVerbose(
                             Event(s1, s2, name, k,
                                   IF s1.used[FiltIdx(t.f)] = 1
                                   THEN "duplicate" ELSE "merged"),
                             cat, name)

\* _retrieve_from_cat: the for loop over the catalog's zip object, which
\* gives each triple out once in the life of the class.
RECURSIVE RetrieveFromCat(_, _, _)
RetrieveFromCat(st, cat, name) ==
    IF st.zips[name] >= Len(Triples(name)) THEN st
    ELSE LET k == st.zips[name] + 1
             t == Triples(name)[k]
             s1 == [st EXCEPT !.zips[name] = k]
             mag == Column(cat, t.m)
             err == Column(cat, t.e)
         IN IF s1.used[FiltIdx(t.f)] = 1
            THEN Event(s1, IF s1.verbose
                           THEN Construct(s1, t.f, DuplicateBand) ELSE s1,
                       name, k, "duplicate")
            ELSE IF IsMasked(mag)
            THEN Event(s1, Warn(s1, t.m, MaskedMagnitude), name, k, "masked_mag")
            ELSE IF IsMasked(err)
            THEN Event(s1, Warn(s1, t.m, MaskedError), name, k, "masked_err")
            ELSE IF ErrIsZero(err)
            THEN Event(s1, Warn(s1, t.m, ZeroError), name, k, "zero_err")
            ELSE LET s2 == AddMags(s1, mag, err, t.f)
                 IN IF s2.raised THEN Event(s1, s2, name, k, "raised")
                    ELSE RetrieveFromCat(Event(s1, s2, name, k, "merged"),
                                         cat, name)

\* _get_ascc, _get_apass, ...: select the rows and extract from them.
\* _get_ascc unpacks the split identifier into exactly three names.
GetCat(st, c, cat) ==
    IF c = "ASCC" /\ Len(Split(st.ids[c], "-")) # 3
    THEN [st EXCEPT !.raised = TRUE]
    ELSE LET rows == ApplyMask(cat, SelectorMask(c, cat, st.ids[c]))
         IN RetrieveFromCat([st EXCEPT !.selected[c] = rows], rows, c)

\* ------------------------------------------------------------------ actions
Zeros == [i \in 1..NBands |-> 0]
NoWriter == [i \in 1..NBands |-> "none"]
NoRows == [c \in Catalogs |-> <<>>]

\* self.ids before gaia_query has run: with mags=False __init__ does not
\* call it and the attribute does not exist.
NoIds == [c \in IdsKeys |-> <<>>]
NoParams == [plx |-> 0, temp |-> 0, rad |-> 0, lum |-> 0, warns |-> <<>>]

\* _get_parallax: a parallax that is not positive is warned about and
\* stored as 0; otherwise the correction is added.  The warning's parameter
\* is the number 0, written here as the token "0" (the other warnings carry
\* names).
GetParallax(st, res) ==
    IF res.parallax <= 0
    THEN [Warn(st, "0", NoParallax) EXCEPT !.plx = 0]
    ELSE [st EXCEPT !.plx = res.parallax + ParallaxCorrection]
\* _get_teff, _get_radius, _get_lum: a masked value is warned about and
\* stored as 0.
GetTeff(st, res) ==
    IF res.teff_val.masked
    THEN [Warn(st, "teff", MaskedParameter) EXCEPT !.temp = 0]
    ELSE [st EXCEPT !.temp = res.teff_val.val]
GetRadius(st, res) ==
    IF res.radius_val.masked
    THEN [Warn(st, "radius", MaskedParameter) EXCEPT !.rad = 0]
    ELSE [st EXCEPT !.rad = res.radius_val.val]
GetLum(st, res) ==
    IF res.lum_val.masked
    THEN [Warn(st, "lum", MaskedParameter) EXCEPT !.lum = 0]
    ELSE [st EXCEPT !.lum = res.lum_val.val]
\* gaia_params: the four values, in this order, whatever verbose is.
GaiaParams(warns, res) ==
    GetLum(GetRadius(GetTeff(GetParallax([NoParams EXCEPT !.warns = warns],
                                         res), res), res), res)

\* gaia_query: the cross-match identifier of each catalog, 'skipped' where
\* the archive has no best neighbour, with a warning when verbose.
RECURSIVE GaiaQuery(_, _, _, _)
GaiaQuery(IDS, warns, v, k) ==
    IF k > Len(QueryOrder) THEN [ids |-> IDS, warns |-> warns]
    ELSE LET cat == QueryOrder[k]
         IN IF xmatch[cat]
            THEN GaiaQuery([IDS EXCEPT ![cat] = TargetId(cat)], warns, v, k + 1)
            ELSE GaiaQuery([IDS EXCEPT ![cat] = Skipped],
                           IF v THEN Append(warns, <<cat, NoCrossMatch>>)
                                ELSE warns,
                           v, k + 1)

Init ==
    /\ args \in [verbose : BOOLEAN]
    /\ xmatch \in {f \in [{QueryOrder[k] : k \in 1..Len(QueryOrder)} -> BOOLEAN] :
                     Cardinality({c \in DOMAIN f : ~f[c]}) <= MaxFaults}
    /\ gsource \in {g \in GaiaSources :
                      SourceCost(g) + Cardinality({c \in DOMAIN xmatch : ~xmatch[c]})
                        <= MaxFaults}
    /\ faults = SourceCost(gsource) + Cardinality({c \in DOMAIN xmatch : ~xmatch[c]})
    /\ vizier = [c \in Catalogs |-> Unseen]
    /\ zips = [c \in Catalogs |-> 0]
    /\ verbose = TRUE
    /\ ids = NoIds
    /\ params = [f \in {"plx", "temp", "rad", "lum"} |-> 0]
    /\ used_filters = Zeros
    /\ mags = Zeros
    /\ mag_errs = Zeros
    /\ warnings = <<>>
    /\ pc = "none"
    /\ ci = 1
    /\ runs = 0
    /\ emitted = 0
    /\ fresh = TRUE
    /\ imark = 0
    /\ rmark = 0
    /\ writer = NoWriter
    /\ selected = NoRows
    /\ invoked = {}
    /\ log = <<>>
    /\ hist = <<>>

\* The dictionary gaia_query starts from.
EmptyIds == [c \in IdsKeys |-> IF c = "Gaia" THEN g_id ELSE <<>>]

\* Librarian(..., mags=m): __init__, which calls gaia_params and then, with
\* mags=True, gaia_query.  It has no precondition: the caller may build an
\* instance whatever became of the one before.
NewLibrarian ==
    \E m \in BOOLEAN :
        LET p == GaiaParams(warnings, gsource)
            q == GaiaQuery(EmptyIds, p.warns, args.verbose, 1)
            w == IF m THEN q.warns ELSE p.warns
        IN /\ pc # "loop"
           /\ runs < MaxRuns
           /\ emitted + Len(w) - Len(warnings) <= MaxEmitted
           /\ emitted' = emitted + Len(w) - Len(warnings)
           /\ verbose' = args.verbose
           /\ used_filters' = Zeros
           /\ mags' = Zeros
           /\ mag_errs' = Zeros
           /\ params' = [f \in {"plx", "temp", "rad", "lum"} |-> p[f]]
           /\ ids' = IF m THEN q.ids ELSE NoIds
           /\ warnings' = w
           /\ imark' = Len(warnings)
           /\ rmark' = Len(w)
           /\ fresh' = TRUE
           /\ pc' = "ready"
           /\ writer' = NoWriter
           /\ selected' = NoRows
           /\ invoked' = {}
           /\ log' = <<>>
           /\ UNCHANGED <<args, xmatch, gsource, vizier, faults, zips, ci, runs,
                          hist>>

\* self.gaia_params(), called on the instance by its user: the four values
\* are read and stored again and their warnings emitted again.
gaia_params ==
    LET p == GaiaParams(warnings, gsource)
    IN /\ pc \in {"ready", "failed", "done", "aborted"}
       /\ runs < MaxRuns
       /\ emitted + Len(p.warns) - Len(warnings) <= MaxEmitted
       /\ emitted' = emitted + Len(p.warns) - Len(warnings)
       /\ params' = [f \in {"plx", "temp", "rad", "lum"} |-> p[f]]
       /\ warnings' = p.warns
       /\ UNCHANGED <<args, xmatch, gsource, vizier, faults, zips, verbose, ids,
                      used_filters, mags, mag_errs, pc, ci, runs, fresh, imark,
                      rmark, writer, selected, invoked, log, hist>>

\* self.gaia_query(), called on the instance by its user: self.ids is
\* built anew and the warnings of the call are emitted again.  An instance
\* built with mags=False gets its identifiers this way.
gaia_query ==
    LET q == GaiaQuery(EmptyIds, warnings, verbose, 1)
    IN /\ pc \in {"ready", "failed", "done", "aborted"}
       /\ runs < MaxRuns
       /\ emitted + Len(q.warns) - Len(warnings) <= MaxEmitted
       /\ emitted' = emitted + Len(q.warns) - Len(warnings)
       /\ ids' = q.ids
       /\ warnings' = q.warns
       /\ UNCHANGED <<args, xmatch, gsource, vizier, faults, zips, verbose,
                      params, used_filters, mags, mag_errs, pc, ci, runs, fresh,
                      imark, rmark, writer, selected, invoked, log, hist>>

\* get_magnitudes up to its loop: cats = self.get_catalogs().
GetMagnitudes ==
    /\ pc \in {"ready", "failed", "done", "aborted"}
    /\ ids # NoIds
    /\ runs < MaxRuns
    /\ pc' = "loop"
    /\ ci' = 1
    /\ runs' = runs + 1
    /\ fresh' = (pc \in {"ready", "failed"})
    /\ rmark' = Len(warnings)
    /\ selected' = NoRows
    /\ invoked' = {}
    /\ log' = <<>>
    /\ imark' = imark
    /\ UNCHANGED <<args, xmatch, gsource, vizier, faults, zips, verbose, ids,
                   params, used_filters, emitted,
                   mags, mag_errs, warnings, writer, hist>>

\* The instance as the operations above read and write it.
Cur ==
    [used |-> used_filters, mags |-> mags, errs |-> mag_errs,
     warns |-> warnings, zips |-> zips, writer |-> writer,
     selected |-> selected, log |-> log, verbose |-> verbose, ids |-> ids,
     raised |-> FALSE]

\* One iteration of the loop of get_magnitudes, at catalog c, t being the
\* entry of c in the response: what it does to the instance st.
LoopBody(st, c, t) ==
    IF st.ids = NoIds
    THEN [st EXCEPT !.raised = TRUE]     \* self.ids: AttributeError
    ELSE IF c \in IdsKeys
    THEN IF st.ids[c] = Skipped THEN st
         ELSE IF ~t.present THEN Warn(st, c, NoCrossMatch)
         ELSE IF c \in Dispatched THEN GetCat(st, c, t.rows)
         ELSE st
    ELSE IF st.verbose THEN Warn(st, c, NoCrossMatch) ELSE st

\* The end of one iteration of the loop of get_magnitudes: the next catalog,
\* the end of the loop, or an exception leaving get_magnitudes.
Commit(st) ==
    /\ used_filters' = st.used
    /\ mags' = st.mags
    /\ mag_errs' = st.errs
    /\ warnings' = st.warns
    /\ zips' = st.zips
    /\ writer' = st.writer
    /\ selected' = st.selected
    /\ log' = st.log
    /\ pc' = IF st.raised THEN "aborted"
             ELSE IF ci = Len(CatalogOrder) THEN "done" ELSE "loop"
    /\ ci' = IF pc' = "loop" THEN ci + 1 ELSE ci
    /\ hist' = IF pc' = "loop" THEN hist
               ELSE Append(hist, [outcome |-> pc', fresh |-> fresh,
                                  verbose |-> verbose, used |-> st.used,
                                  mags |-> st.mags, errs |-> st.errs,
                                  warns |-> SubSeq(st.warns, rmark + 1,
                                                   Len(st.warns))])
    /\ UNCHANGED <<args, xmatch, gsource, verbose, ids, params, runs, emitted,
                   fresh, imark, rmark>>

\* cats[self.catalogs[c][0]]: the entry of catalog c in the response, which
\* is the same entry each time it is looked up.
AllTables ==
    [c \in Catalogs |-> [b \in 0..MaxFaults |-> TableChoices(c, b)]]
Entries(c) ==
    IF vizier[c].seen THEN {vizier[c]}
    ELSE AllTables[c][MaxFaults - faults]
See(c, t) ==
    /\ vizier' = [vizier EXCEPT ![c] = t]
    /\ faults' = faults + (IF vizier[c].seen THEN 0 ELSE TableCost(c, t))

\* get_magnitudes on an instance that has no self.ids (built with
\* mags=False, gaia_query not called since): the first iteration of the
\* loop raises AttributeError at `if c in self.ids.keys():`, before anything
\* is read or written.
GetMagnitudesNoIds ==
    LET c == CatalogOrder[1]
    IN /\ pc \in {"ready", "failed"}
       /\ ids = NoIds
       /\ LoopBody(Cur, c, vizier[c]).raised
       /\ pc' = "failed"
       /\ UNCHANGED <<args, xmatch, gsource, vizier, faults, zips, verbose, ids,
                      params, used_filters, mags, mag_errs, warnings, ci, runs,
                      emitted, fresh, imark, rmark, writer, selected, invoked,
                      log, hist>>

\* if self.ids[c] == 'skipped': continue
CatSkipped ==
    LET c == CatalogOrder[ci]
    IN /\ pc = "loop"
       /\ ids # NoIds
       /\ c \in IdsKeys
       /\ ids[c] = Skipped
       /\ Commit(LoopBody(Cur, c, vizier[c]))
       /\ UNCHANGED <<vizier, faults, invoked>>

\* except TypeError: CatalogWarning(c, 5).warn(); continue
CatUnavailable ==
    LET c == CatalogOrder[ci]
    IN /\ pc = "loop"
       /\ ids # NoIds
       /\ c \in IdsKeys
       /\ ids[c] # Skipped
       /\ \E t \in Entries(c) :
            /\ ~t.present
            /\ See(c, t)
            /\ Commit(LoopBody(Cur, c, t))
       /\ UNCHANGED invoked

\* if c == 'APASS': self._get_apass(current_cat); continue -- and the like
CatSelect ==
    LET c == CatalogOrder[ci]
    IN /\ pc = "loop"
       /\ ids # NoIds
       /\ c \in IdsKeys
       /\ ids[c] # Skipped
       /\ c \in Dispatched
       /\ \E t \in Entries(c) :
            /\ t.present
            /\ See(c, t)
            /\ Commit(LoopBody(Cur, c, t))
       /\ invoked' = invoked \cup {c}

\* A catalog of self.ids that no `if c == ...` names: the loop body ends.
CatFallThrough ==
    LET c == CatalogOrder[ci]
    IN /\ pc = "loop"
       /\ ids # NoIds
       /\ c \in IdsKeys
       /\ ids[c] # Skipped
       /\ c \notin Dispatched
       /\ \E t \in Entries(c) :
            /\ t.present
            /\ See(c, t)
            /\ Commit(LoopBody(Cur, c, t))
       /\ UNCHANGED invoked

\* A catalog that is not in self.ids: the lookup raises TypeError when the
\* entry is absent, and self._retrieve_from_cat(current_cat) raises
\* TypeError (the argument `name` is missing) when it is present; either is
\* caught by `except Exception`.
CatElse ==
    LET c == CatalogOrder[ci]
    IN /\ pc = "loop"
       /\ ids # NoIds
       /\ c \notin IdsKeys
       /\ \E t \in Entries(c) :
            /\ See(c, t)
            /\ Commit(LoopBody(Cur, c, t))
       /\ UNCHANGED invoked

Next ==
    \/ NewLibrarian
    \/ gaia_params
    \/ gaia_query
    \/ GetMagnitudes
    \/ GetMagnitudesNoIds
    \/ CatSkipped
    \/ CatUnavailable
    \/ CatSelect
    \/ CatFallThrough
    \/ CatElse

Spec == Init /\ [][Next]_vars

\* ------------------------------------------------ _add_mags on its own
\* The bands and the columns _add_mags is called with below: a column of a
\* selection of no row, or of one row.
MergeBands == {filter_names[i] : i \in 1..MaxBands}
MergeColumns == {<<>>, <<Cell(1)>>, <<Cell(2)>>}

\* A new Librarian, as __init__ leaves its vector.
MergeInit ==
    /\ args \in [verbose : BOOLEAN]
    /\ verbose = args.verbose
    /\ xmatch = [c \in {QueryOrder[k] : k \in 1..Len(QueryOrder)} |-> TRUE]
    /\ gsource = CHOOSE g \in GaiaSources : SourceCost(g) = 0
    /\ params = [f \in {"plx", "temp", "rad", "lum"} |->
                    GaiaParams(<<>>, gsource)[f]]
    /\ faults = 0
    /\ vizier = [c \in Catalogs |-> Unseen]
    /\ zips = [c \in Catalogs |-> 0]
    /\ ids = [c \in IdsKeys |-> TargetId(c)]
    /\ used_filters = Zeros
    /\ mags = Zeros
    /\ mag_errs = Zeros
    /\ warnings = <<>>
    /\ pc = "ready"
    /\ ci = 1
    /\ runs = 0
    /\ emitted = 0
    /\ fresh = TRUE
    /\ imark = 0
    /\ rmark = 0
    /\ writer = NoWriter
    /\ selected = NoRows
    /\ invoked = {}
    /\ log = <<>>
    /\ hist = <<>>

\* self._add_mags(mag, er, filt), called with any band and columns; `log`
\* holds the call that was made last.
Merge ==
    \E filt \in MergeBands, mag \in MergeColumns, er \in MergeColumns :
        LET st == AddMags(Cur, mag, er, filt)
        IN /\ used_filters' = st.used
           /\ mags' = st.mags
           /\ mag_errs' = st.errs
           /\ warnings' = st.warns
           /\ log' = <<[cat |-> "_add_mags", k |-> FiltIdx(filt),
                        out |-> IF st.raised THEN "raised"
                                ELSE IF used_filters[FiltIdx(filt)] = 1
                                THEN "duplicate" ELSE "merged",
                        mag |-> mag, er |-> er]>>
           /\ UNCHANGED <<args, xmatch, gsource, vizier, faults, zips, verbose,
                          ids, params, pc, emitted,
                          ci, runs, fresh, imark, rmark, writer, selected,
                          invoked, hist>>

MergeSpec == MergeInit /\ [][Merge]_vars

\* ------------------------------------------------------------------- claims
Count(seq, w) == Cardinality({i \in 1..Len(seq) : seq[i] = w})
\* The warnings of the current run, and of the current instance.
RunWarnings == SubSeq(warnings, rmark + 1, Len(warnings))
InstanceWarnings == SubSeq(warnings, imark + 1, Len(warnings))
Band(c, k) == FiltIdx(Triples(c)[k].f)
\* The row the selector of c handed on holds a magnitude and an error for
\* triple k that pass the validator.
Supplies(c, k) ==
    /\ c \in invoked
    /\ Len(selected[c]) = 1
    /\ ~selected[c][1].cols[Triples(c)[k].m].masked
    /\ ~selected[c][1].cols[Triples(c)[k].e].masked
    /\ selected[c][1].cols[Triples(c)[k].e].val # 0
\* The response holds the target's row of c, with valid values for triple k.
Offers(c, k) ==
    /\ vizier[c].seen /\ vizier[c].present
    /\ vizier[c].rows # <<>>
    /\ vizier[c].rows[1].id = TargetKey(c)
    /\ ~vizier[c].rows[1].cols[Triples(c)[k].m].masked
    /\ ~vizier[c].rows[1].cols[Triples(c)[k].e].masked
    /\ vizier[c].rows[1].cols[Triples(c)[k].e].val # 0
Processed(c, k) == \E i \in 1..Len(log) : log[i].cat = c /\ log[i].k = k
V == FiltIdx("GROUND_JOHNSON_V")

\* C1: within an instance, a band that is used stays used and keeps its
\* magnitude and error, and a band some catalog wrote is never written by
\* any later triple: at most one catalog ever writes a band.
C1_FirstWriterWins ==
    [][pc' # "ready" =>
         \A b \in 1..NBands :
            /\ used_filters[b] = 1 =>
                 /\ used_filters'[b] = 1
                 /\ mags'[b] = mags[b]
                 /\ mag_errs'[b] = mag_errs[b]
            /\ writer[b] # "none" =>
                 /\ writer'[b] = writer[b]
                 /\ mags'[b] = mags[b]
                 /\ mag_errs'[b] = mag_errs[b]]_vars
\* ASCC wrote V, and the V triple of APASS came after it and was rejected.
C1_Witness ==
    /\ pc = "done"
    /\ writer[V] = "ASCC"
    /\ Offers("APASS", 1)
    /\ \E i \in 1..Len(log) :
          log[i] = [cat |-> "APASS", k |-> 1, out |-> "duplicate"]

\* C2: when ASCC and APASS both supply a valid V, the run ends with V used,
\* holding the values of ASCC, and with exactly one DuplicateBand warning
\* for the V triple of APASS.  Stated for verbose on, where the code builds
\* the warning.
C2_DuplicateWarned ==
    (/\ pc = "done" /\ Len(hist) = 1 /\ verbose
     /\ Supplies("ASCC", 1) /\ Supplies("APASS", 1))
    => /\ used_filters[V] = 1
       /\ mags[V] = selected["ASCC"][1].cols["Vmag"].val
       /\ mag_errs[V] = selected["ASCC"][1].cols["e_Vmag"].val
       /\ Count(RunWarnings, <<"GROUND_JOHNSON_V", DuplicateBand>>) = 1

\* C3: every triple that was accepted and written left a used band with an
\* error that is strictly positive.
C3_ErrorPositive ==
    \A i \in 1..Len(log) :
        log[i].out = "merged" =>
            /\ used_filters[Band(log[i].cat, log[i].k)] = 1
            /\ mag_errs[Band(log[i].cat, log[i].k)] > 0

\* C4: a triple whose magnitude is masked writes nothing and is warned about
\* once, and the later triples of its catalog are still processed, a valid
\* one for an unused band being written.
C4_MaskedMagnitudeSkipsOneTriple ==
    \A i \in 1..Len(log) :
        log[i].out = "masked_mag" =>
            LET c == log[i].cat
                k == log[i].k
            IN /\ writer[Band(c, k)] # c
               /\ Count(RunWarnings, <<Triples(c)[k].m, MaskedMagnitude>>) = 1
               /\ \A j \in (k + 1)..Len(Triples(c)) :
                     /\ Processed(c, j)
                     /\ (Supplies(c, j) /\ writer[Band(c, j)] \in {"none", c})
                          => writer[Band(c, j)] = c

\* C5: a triple whose error is zero writes nothing and is warned about, and
\* the later triples of its catalog are still processed.
C5_ZeroErrorSkipsOneTriple ==
    \A i \in 1..Len(log) :
        log[i].out = "zero_err" =>
            LET c == log[i].cat
                k == log[i].k
            IN /\ writer[Band(c, k)] # c
               /\ Count(RunWarnings, <<Triples(c)[k].m, ZeroError>>) >= 1
               /\ \A j \in (k + 1)..Len(Triples(c)) : Processed(c, j)

\* C6: at the end of the first run of an instance, a catalog whose
\* identifier is the sentinel wrote nothing, had no selector run, and was
\* warned about with NoCrossMatch since the instance was built, whatever
\* verbose is.  (The claim says exactly once for each resolution; every
\* gaia_query call on the instance is one, so at least once is what is
\* stated here.)
C6_OneWarningWhateverVerbose ==
    \A c \in IdsKeys :
        (pc \in {"done", "aborted"} /\ fresh /\ ids[c] = Skipped) =>
            /\ c \notin invoked
            /\ \A b \in 1..NBands : writer[b] # c
            /\ Count(InstanceWarnings, <<c, NoCrossMatch>>) >= 1

\* C7: at the end of the first run, every catalog that has a match and a
\* table had its selector and extractor run, and every band it offers a
\* valid triple for is used.
C7_EveryCatalogExtracted ==
    (pc = "done" /\ Len(hist) = 1) =>
        \A c \in Catalogs :
            ((c \in IdsKeys => ids[c] # Skipped) /\ vizier[c].present) =>
                /\ c \in invoked
                /\ \A k \in 1..Len(Triples(c)) :
                      Offers(c, k) => used_filters[Band(c, k)] = 1

\* C8: a run that got into the loop over the catalogs never ends by an
\* exception, and ends having visited every catalog.
C8_RunReachesDone ==
    /\ pc # "aborted"
    /\ pc = "done" => ci = Len(CatalogOrder)

\* C9: two ended runs that each began with a new instance end with the same
\* vector and the same multiset of warnings.
C9_RerunIdentical ==
    \A i, j \in 1..Len(hist) :
        (/\ i < j
         /\ hist[i].fresh /\ hist[j].fresh
         /\ hist[i].outcome = "done" /\ hist[j].outcome = "done")
        => /\ hist[j].used = hist[i].used
           /\ hist[j].mags = hist[i].mags
           /\ hist[j].errs = hist[i].errs
           /\ \A w \in {hist[i].warns[n] : n \in 1..Len(hist[i].warns)}
                     \cup {hist[j].warns[n] : n \in 1..Len(hist[j].warns)} :
                 Count(hist[i].warns, w) = Count(hist[j].warns, w)

\* C10: the selector of ASCC hands on exactly the rows whose TYC1, TYC2 and
\* TYC3 equal the three components of the identifier a-b-c.
C10_AsccSelector ==
    "ASCC" \in invoked =>
        LET id == ids["ASCC"]
            rows == vizier["ASCC"].rows
            Match(r) == /\ r.id["TYC1"] = <<id[1]>>
                        /\ r.id["TYC2"] = <<id[3]>>
                        /\ r.id["TYC3"] = <<id[5]>>
        IN /\ Len(id) = 5 /\ id[2] = "-" /\ id[4] = "-"
           /\ selected["ASCC"] =
                 IF rows # <<>> /\ Match(rows[1]) THEN rows ELSE <<>>
\* The row of the ASCC table matches two of the three components and the
\* selector handed on no row.
C10_Witness ==
    /\ "ASCC" \in invoked
    /\ vizier["ASCC"].rows # <<>>
    /\ Cardinality({col \in IdCols("ASCC") :
                      vizier["ASCC"].rows[1].id[col] = TargetKey("ASCC")[col]}) = 2
    /\ selected["ASCC"] = <<>>

\* The step of get_magnitudes at a catalog whose identifier, if it has one,
\* is not the sentinel and whose table the response does not hold.
AbsentStep ==
    LET c == CatalogOrder[ci]
    IN /\ pc = "loop"
       /\ ids # NoIds
       /\ c \in IdsKeys => ids[c] # Skipped
       /\ vizier'[c].seen
       /\ ~vizier'[c].present
\* A step that reads no triple, writes nothing, runs no selector and goes on
\* to the next catalog.
PassesOver ==
    /\ zips' = zips
    /\ log' = log
    /\ used_filters' = used_filters
    /\ mags' = mags
    /\ mag_errs' = mag_errs
    /\ writer' = writer
    /\ invoked' = invoked
    /\ pc' # "aborted"
    /\ pc' = "loop" => ci' = ci + 1

\* C11: at a catalog with no table in the response, exactly one
\* catalog-level warning is emitted, no triple is read or written, the
\* vector is unchanged and the run goes on to the next catalog.
C11_AbsentTableWarned ==
    [][AbsentStep =>
         /\ warnings' = Append(warnings, <<CatalogOrder[ci], NoCrossMatch>>)
         /\ PassesOver]_vars

\* C12: a triple rejected because its band is already used is warned about
\* with DuplicateBand, and it is the last triple of its catalog that the run
\* reads, writes or warns about.  Stated for verbose on, where the code
\* builds the warning.
C12_DuplicateStopsCatalog ==
    \A i \in 1..Len(log) :
        (verbose /\ log[i].out = "duplicate") =>
            LET c == log[i].cat
                k == log[i].k
            IN /\ Count(RunWarnings, <<Triples(c)[k].f, DuplicateBand>>) >= 1
               /\ zips[c] = k
               /\ \A j \in 1..Len(log) : log[j].cat = c => j <= i
               /\ \A j \in (k + 1)..Len(Triples(c)) :
                     ~Processed(c, j) /\ writer[Band(c, j)] # c

\* C13: a call of _add_mags with a magnitude and an error for a band that
\* is already used changes no index of the vector and emits one
\* DuplicateBand warning for the band; for a band that is not used it sets
\* used, magnitude and error at the index of the band and changes no other
\* index.
C13_MergeFrame ==
    [][(/\ Len(log') = 1
        /\ Len(log'[1].mag) = 1
        /\ Len(log'[1].er) = 1)
       => LET idx == log'[1].k
          IN IF used_filters[idx] = 1
             THEN /\ used_filters' = used_filters
                  /\ mags' = mags
                  /\ mag_errs' = mag_errs
                  /\ warnings' = Append(warnings,
                                        <<filter_names[idx], DuplicateBand>>)
             ELSE /\ used_filters' = [used_filters EXCEPT ![idx] = 1]
                  /\ mags' = [mags EXCEPT ![idx] = log'[1].mag[1].val]
                  /\ mag_errs' = [mag_errs EXCEPT ![idx] = log'[1].er[1].val]
                  /\ warnings' = warnings]_vars

\* The instance with verbose the other way round.
Flipped == [Cur EXCEPT !.verbose = ~verbose]
\* What the iteration of the loop of get_magnitudes at the current catalog
\* does to the flipped instance, the response holding the entry that the
\* step saw.
FlippedStep == LoopBody(Flipped, CatalogOrder[ci], vizier'[CatalogOrder[ci]])
\* The identifiers gaia_query gives the instance built with verbose the
\* other way round.
FlippedIds ==
    GaiaQuery(EmptyIds, warnings, ~args.verbose, 1).ids

\* An instance without its warnings, its verbose flag and its history: the
\* vector, the position in each catalog's triples, the identifiers and
\* whether an exception was raised.
Silenced(st) ==
    [st EXCEPT !.warns = <<>>, !.verbose = TRUE, !.log = <<>>,
               !.writer = NoWriter, !.selected = NoRows]

\* C14: every step takes the vector, the position in each catalog's triples
\* and the course of the run to the same values with verbose on and with
\* verbose off, so that two runs on the same identifiers and tables that
\* differ only in verbose pass through the same vectors; and every step
\* keeps the warnings emitted so far and only adds to them.
C14_WarningsNeverAffectVector ==
    [][/\ pc = "loop" =>
            Silenced(FlippedStep)
              = Silenced([used |-> used_filters', mags |-> mags',
                          errs |-> mag_errs', warns |-> warnings',
                          zips |-> zips', writer |-> writer',
                          selected |-> selected', log |-> log',
                          verbose |-> verbose', ids |-> ids',
                          raised |-> (pc' = "aborted")])
       /\ pc # "loop" =>
            /\ ids' # NoIds => FlippedIds = ids'
            /\ <<used_filters', mags', mag_errs'>>
                 \in {<<used_filters, mags, mag_errs>>, <<Zeros, Zeros, Zeros>>}
       /\ Len(warnings') >= Len(warnings)
       /\ SubSeq(warnings', 1, Len(warnings)) = warnings]_vars
\* With verbose on, a run ended in which GALEX was warned about, ASCC wrote
\* V and the V triple of APASS was rejected.
C14_Witness ==
    /\ pc = "done"
    /\ verbose
    /\ Count(RunWarnings, <<"GALEX", NoCrossMatch>>) = 1
    /\ writer[V] = "ASCC"
    /\ \E i \in 1..Len(log) :
          log[i] = [cat |-> "APASS", k |-> 1, out |-> "duplicate"]

\* C15: a band that is not used holds magnitude 0 and error 0, and a band
\* that is used holds the magnitude and the error of one triple of one row
\* of one catalog's table.
C15_VectorConsistent ==
    \A b \in 1..NBands :
        /\ used_filters[b] = 0 => (mags[b] = 0 /\ mag_errs[b] = 0)
        /\ used_filters[b] = 1 =>
             \E c \in Catalogs :
                \E k \in 1..Len(Triples(c)) :
                    /\ Band(c, k) = b
                    /\ vizier[c].seen /\ vizier[c].present
                    /\ vizier[c].rows # <<>>
                    /\ LET m == vizier[c].rows[1].cols[Triples(c)[k].m]
                           e == vizier[c].rows[1].cols[Triples(c)[k].e]
                       IN /\ ~m.masked /\ mags[b] = m.val
                          /\ ~e.masked /\ mag_errs[b] = e.val

\* C16: a catalog whose selector ran and handed on no row wrote no band,
\* and the run did not stop at it.
C16_EmptySelectionWritesNothing ==
    \A c \in invoked :
        selected[c] = <<>> =>
            /\ \A b \in 1..NBands : writer[b] # c
            /\ \A i \in 1..Len(log) :
                  log[i].cat = c => log[i].out \notin {"merged", "raised"}
            /\ pc = "aborted" => CatalogOrder[ci] # c

SdssBands == {FiltIdx("SDSS_g"), FiltIdx("SDSS_r"), FiltIdx("SDSS_i")}

\* C17: while the V of the instance is the one ASCC wrote, APASS has
\* written no band of it, and SDSS_g, SDSS_r and SDSS_i are unused or
\* written by SDSS.
C17_ApassShadowedByAscc ==
    writer[V] = "ASCC" =>
        /\ \A b \in 1..NBands : writer[b] # "APASS"
        /\ \A b \in SdssBands :
              /\ writer[b] \in {"none", "SDSS"}
              /\ used_filters[b] = 1 => writer[b] = "SDSS"
====
